---------------------------- MODULE Spec2Model ----------------------------
(***************************************************************************)
(* A model of the NIST spectra scraper ("1) NIST Spectra Scraper.py",      *)
(* src/unnamed/part_000) and of its supervisor (src/supervised_scraper.py).*)
(*                                                                         *)
(* The specifications share the variables:                                 *)
(*   SpecLimiter     rate_limited_request called in a loop, with arbitrary *)
(*                   gaps between calls, latencies and oversleeping;       *)
(*   Spec            get_all_IR, run again and again over one manifest,    *)
(*                   against a remote that answers, answers "not found",   *)
(*                   answers with status 429, or fails;                    *)
(*   SpecInterrupted Spec on a disk where an append to a checkpoint file   *)
(*                   may be interrupted;                                   *)
(*   SpecSupervisor  main() of the supervisor around an opaque child;      *)
(*   SpecSupervisorFair  the same with a small restart budget or a budget  *)
(*                   of 0, under fairness of the child and of main;        *)
(*   SpecQuota       main() around children that send requests.            *)
(* Time is in whole seconds. Text (manifest lines, keys, checkpoint files) *)
(* is a sequence of one-character strings.                                 *)
(***************************************************************************)
EXTENDS Integers, Sequences, FiniteSets, TLC

VARIABLES
    now,                 \* the wall clock, datetime.now()
    request_timestamps,  \* part_000:25, deque(maxlen=5) of the running process
    issued,              \* history: when the last K+1 requests of this process were sent
    nreq,                \* history: requests sent so far, over all runs
    species,             \* the lines of species.txt
    done_formulae_file,  \* the text of done_formulae.txt
    done_IDs_file,       \* the text of done_IDs.txt
    mol_files,           \* MOL_PATH: nistid -> content, or NoFile
    jdx_files,           \* JDX_PATH: nistid -> content, or NoFile
    pc,                  \* where get_all_IR stands
    formulae,            \* part_000:111
    IDs,                 \* part_000:112
    done_formulae,       \* part_000:126, the set loaded at the start of the run
    done_IDs,            \* part_000:141
    i,                   \* index of the work item of the running loop
    ids,                 \* part_000:100, the record IDs the search returned
    j,                   \* part_000:101, index into ids
    run,                 \* history: the number of the current run
    cur,                 \* history: [cat, key] of the item being processed, or NoItem
    outcomes,            \* history: <<nistid, kind, outcome>> of the current item's fetches
    reqlog,              \* history: [run, cat, key] of every request sent
    marked,              \* history: [run, cat, key] of every checkpoint append
    torn,                \* history: [run, cat, key, written] of every append to a
                         \* checkpoint file that was interrupted
    errors,              \* history: [run, cat, key, kind, at] of every request that met
                         \* a transport error, and the size of the checkpoints then
    sup_pc,              \* where main() of the supervisor stands
    max_restarts,        \* the value of MAX_RESTARTS the supervisor runs with
    restart_count,       \* supervised_scraper.py:121
    failure_timestamps,  \* supervised_scraper.py:122
    log,                 \* the text of LOG_FILE
    child,               \* the child process run_scraper waits for (with the time it
                         \* was started, `born`, and the lines it has printed, `sent`),
                         \* or NoChild
    orphans,             \* children still alive that run_scraper no longer waits for:
                         \* the request_timestamps of each
    exit_code,           \* what main() returned, or NoExit
    transcript,          \* history: what run_scraper has read from the current child
    attempts,            \* history: [sig, rc, how, class] of every run_scraper call that
                         \* ended: whether its child's output holds a failure pattern,
                         \* the child's exit status, and what run_scraper made of it
    failure_history,     \* history: the time of every failure recorded
    tripped,             \* history: the last answer of check_failure_threshold
    evaluated_at,        \* history: when check_failure_threshold last ran
    nerrors              \* history: the exceptions run_scraper has caught

limVars == <<now, request_timestamps, issued, nreq>>
diskVars == <<species, done_formulae_file, done_IDs_file, mol_files, jdx_files>>
runVars ==
    <<pc, formulae, IDs, done_formulae, done_IDs, i, ids, j, run, cur, outcomes, reqlog, marked,
      errors, torn>>
supVars ==
    <<sup_pc, restart_count, failure_timestamps, log, child, orphans, exit_code, transcript,
      attempts, failure_history, tripped, evaluated_at, nerrors, max_restarts>>
vars == <<limVars, diskVars, runVars, supVars>>

-----------------------------------------------------------------------------
(* Bounds of the model *)

MaxRequests == 8    \* SpecLimiter: calls of rate_limited_request
MaxGap == 29        \* SpecLimiter: longest pause between two calls
MaxLatency == 2     \* longest time a request takes
MaxOversleep == 1   \* time.sleep may return late
MaxRuns == 2        \* Spec: executions of get_all_IR
MaxReadErrors == 1  \* SpecSupervisor: exceptions inside run_scraper
FewRestarts == 2    \* SpecQuota, SpecSupervisorFair: a small restart budget
QuotaRequests == 6  \* SpecQuota: requests sent by all children together

-----------------------------------------------------------------------------
(* Text *)

NL == "\n"
Whitespace == {" ", NL}

RECURSIVE LStrip(_)
LStrip(s) == IF s # <<>> /\ Head(s) \in Whitespace THEN LStrip(Tail(s)) ELSE s

RECURSIVE RStrip(_)
RStrip(s) ==
    IF s # <<>> /\ s[Len(s)] \in Whitespace THEN RStrip(SubSeq(s, 1, Len(s) - 1)) ELSE s

\* str.strip()
Strip(s) == RStrip(LStrip(s))

\* Index of the first character of s that is in set cs, 0 when there is none
FirstIn(s, cs) ==
    IF \E n \in 1..Len(s) : s[n] \in cs
    THEN CHOOSE n \in 1..Len(s) : s[n] \in cs /\ \A m \in 1..(n - 1) : s[m] \notin cs
    ELSE 0

\* str.split(): the maximal runs of non-whitespace characters
RECURSIVE Split(_)
Split(s) ==
    LET t == LStrip(s)
        n == FirstIn(t, Whitespace)
    IN  IF t = <<>> THEN <<>>
        ELSE IF n = 0 THEN <<t>>
        ELSE <<SubSeq(t, 1, n - 1)>> \o Split(SubSeq(t, n, Len(t)))

\* Iterating a text file: each line with its newline, the last one maybe without
RECURSIVE ReadLines(_)
ReadLines(f) ==
    LET n == FirstIn(f, {NL})
    IN  IF f = <<>> THEN <<>>
        ELSE IF n = 0 THEN <<f>>
        ELSE <<SubSeq(f, 1, n)>> \o ReadLines(SubSeq(f, n + 1, Len(f)))

Range(s) == {s[n] : n \in 1..Len(s)}

-----------------------------------------------------------------------------
(* The rate limiter, part_000:24-45 *)

K == 5      \* part_000:25 and :32
T == 30     \* part_000:37-38

Latencies == {0, MaxLatency}
Oversleeps == {0, MaxOversleep}
Gaps == {0, MaxGap}

\* deque(maxlen=n).append(x)
DequeAppend(d, x, n) == IF Len(d) < n THEN Append(d, x) ELSE Append(Tail(d), x)

\* part_000:33
oldest_request(ts) == ts[1]

sleep_time_off_by_one(ts, current_time) ==
    IF Len(ts) > K /\ current_time - oldest_request(ts) < T
    THEN T - (current_time - oldest_request(ts))
    ELSE 0

\* part_000:32-39: how long the call sleeps before it sends the request
sleep_time(ts, current_time) ==
    IF Len(ts) = K /\ current_time - oldest_request(ts) < T
    THEN T - (current_time - oldest_request(ts))
    ELSE 0

\* rate_limited_request, called at time `called`: the request is sent after the
\* sleep (which may run `over` late) and takes `lat`; its timestamp is taken
\* after it returned. A request that raises records no timestamp.
RateLimitedRequest(called, lat, over, raises) ==
    LET current_time == called
        slept == sleep_time(request_timestamps, current_time)
        sent == current_time + slept + (IF slept > 0 THEN over ELSE 0)
        returned == sent + lat
    IN  /\ now' = returned
        /\ issued' = DequeAppend(issued, sent, K + 1)
        /\ nreq' = nreq + 1
        /\ request_timestamps' =
              IF raises THEN request_timestamps
              ELSE DequeAppend(request_timestamps, returned, K)

\* SpecLimiter: one more call, `gap` after the previous one returned
LimiterCall ==
    /\ nreq < MaxRequests
    /\ \E gap \in Gaps, lat \in Latencies, over \in Oversleeps :
          RateLimitedRequest(now + gap, lat, over, FALSE)
    /\ UNCHANGED <<diskVars, runVars, supVars>>

-----------------------------------------------------------------------------
(* The disk and the remote *)

NoFile == "NoFile"
NoItem == [cat |-> "none", key |-> <<>>]

\* Lines of species.txt: "name formula cas", and a bare record ID
EntryC == <<"a", " ", "C", " ", "1", NL>>
EntryCO == <<"b", " ", "C", "O", " ", "2", NL>>
Entry7 == <<"7", NL>>
\* The manifests tried: a formula listed twice, formulas and IDs in either
\* order, an ID listed twice
Manifests ==
    { <<EntryC, EntryC>>,
      <<EntryC, EntryCO>>,
      <<Entry7, EntryC>>,
      <<EntryCO, Entry7, Entry7>> }

\* The record IDs the remote knows
RecordIDs == {<<"7">>, <<"8">>}

\* What a search may return
SearchResults == { <<>>, <<<<"7">>>>, <<<<"8">>, <<"7">>>> }

\* What a download may return: the sentinel body, a record's content, or the
\* body of a response with status 429 (requests.get returns it, part_000:42)
Sentinel == "Sentinel"
Content == "Content"
TooManyRequests == "TooManyRequests"
Bodies == {Sentinel, Content, TooManyRequests}

\* part_000:113-119
RECURSIVE ParseFormulae(_)
ParseFormulae(entries) ==
    IF entries = <<>> THEN <<>>
    ELSE LET tokens == Split(Head(entries))
         IN  (IF Len(tokens) >= 2 THEN <<tokens[Len(tokens) - 1]>> ELSE <<>>)
                \o ParseFormulae(Tail(entries))

RECURSIVE ParseIDs(_)
ParseIDs(entries) ==
    IF entries = <<>> THEN <<>>
    ELSE LET tokens == Split(Head(entries))
         IN  (IF Len(tokens) >= 2 THEN <<>> ELSE <<Strip(Head(entries))>>)
                \o ParseIDs(Tail(entries))

LoadDoneUnstripped(file) == Range(ReadLines(file))

\* part_000:128 and :143: set(line.strip() for line in done_file)
LoadDone(file) == {Strip(line) : line \in Range(ReadLines(file))}

OverwriteRecord(file, key) == key \o <<NL>>

\* part_000:134 and :150: done_file.write(key + "\n") on a file opened with "a"
AppendRecord(file, key) == file \o key \o <<NL>>

-----------------------------------------------------------------------------
(* The fetch loop, part_000:68-151 *)

\* A request of the fetch loop: it is logged against the item being processed
Request(item, raises) ==
    /\ RateLimitedRequest(now, MaxLatency, 0, raises)
    /\ reqlog' = reqlog \cup {[run |-> run, cat |-> item.cat, key |-> item.key]}

IsNotFoundNever(body) == body = NoFile

\* part_000:76 and :92: the body is compared with the fixed not-found text
IsNotFound(body) == body = Sentinel

NoRequest == UNCHANGED <<limVars, reqlog, errors>>

\* History: the request for `item` met the transport error `kind`
TransportError(item, kind) ==
    errors' = errors \cup
        {[run |-> run, cat |-> item.cat, key |-> item.key, kind |-> kind,
          at |-> Len(done_formulae_file) + Len(done_IDs_file)]}

IsFileInJdxPath(files, nistid) == jdx_files[nistid] # NoFile

\* part_000:71 and :87, os.path.isfile(filepath)
IsFile(files, nistid) == files[nistid] # NoFile

\* get_mol / get_jdx on the directory `files` (part_000:68-97): the directory
\* afterwards, with the outcome recorded; pc' is `next`, or "aborted" when the
\* request raises.
Fetch(files, kind, nistid, item, next) ==
    \/ /\ IsFile(files, nistid)
       /\ NoRequest
       /\ files' = files
       /\ outcomes' = outcomes \cup {<<nistid, kind, "Skipped">>}
       /\ pc' = next
    \/ /\ ~IsFile(files, nistid)
       /\ \/ /\ Request(item, TRUE)
             /\ TransportError(item, "raised")
             /\ files' = files
             /\ outcomes' = outcomes
             /\ pc' = "aborted"
          \/ /\ Request(item, FALSE)
             /\ \E body \in Bodies :
                   /\ IF body = TooManyRequests
                      THEN TransportError(item, "status 429")
                      ELSE errors' = errors
                   /\ IF IsNotFound(body)
                      THEN /\ files' = files
                           /\ outcomes' = outcomes \cup {<<nistid, kind, "NotFound">>}
                      ELSE /\ files' = [files EXCEPT ![nistid] = <<body, run>>]
                           /\ outcomes' = outcomes \cup {<<nistid, kind, "Saved">>}
             /\ pc' = next

get_mol(nistid, item, next) ==
    /\ Fetch(mol_files, "mol", nistid, item, next)
    /\ UNCHANGED jdx_files

get_jdx(nistid, item, next) ==
    /\ Fetch(jdx_files, "jdx", nistid, item, next)
    /\ UNCHANGED mol_files

Running == pc \notin {"idle", "done", "aborted"}

\* part_000:105-128: a new process; it parses the manifest and loads done_formulae.txt
StartRun ==
    /\ ~Running
    /\ run < MaxRuns
    /\ run' = run + 1
    /\ request_timestamps' = <<>>
    /\ issued' = <<>>
    /\ formulae' = ParseFormulae(species)
    /\ IDs' = ParseIDs(species)
    /\ done_formulae' = LoadDone(done_formulae_file)
    /\ done_IDs' = {}
    /\ i' = 1
    /\ ids' = <<>>
    /\ j' = 1
    /\ cur' = NoItem
    /\ outcomes' = {}
    /\ pc' = "formulae"
    /\ UNCHANGED <<now, nreq, diskVars, reqlog, marked, errors>>
    /\ UNCHANGED <<supVars, torn>>

\* part_000:130-131
SkipFormula ==
    /\ pc = "formulae"
    /\ i <= Len(formulae)
    /\ formulae[i] \in done_formulae
    /\ i' = i + 1
    /\ UNCHANGED <<limVars, diskVars, pc, formulae, IDs, done_formulae, done_IDs, ids, j,
                   run, cur, outcomes, reqlog, marked, errors>>
    /\ UNCHANGED <<supVars, torn>>

\* part_000:132, :100 and :47-65: the search of a formula that is not done
Search ==
    /\ pc = "formulae"
    /\ i <= Len(formulae)
    /\ formulae[i] \notin done_formulae
    /\ LET item == [cat |-> "formula", key |-> formulae[i]]
       IN  /\ cur' = item
           /\ outcomes' = outcomes
           /\ j' = 1
           /\ \/ /\ Request(item, TRUE)
                 /\ TransportError(item, "raised")
                 /\ ids' = <<>>
                 /\ pc' = "aborted"
              \/ /\ Request(item, FALSE)
                 /\ \/ /\ \E found \in SearchResults : ids' = found
                       /\ errors' = errors
                    \/ \* a response with status 429: its page holds no record link
                       /\ ids' = <<>>
                       /\ TransportError(item, "status 429")
                 /\ pc' = "f_mol"
    /\ UNCHANGED <<diskVars, formulae, IDs, done_formulae, done_IDs, i, run, marked>>
    /\ UNCHANGED <<supVars, torn>>

\* part_000:102
FormulaMol ==
    /\ pc = "f_mol"
    /\ j <= Len(ids)
    /\ get_mol(ids[j], cur, "f_jdx")
    /\ UNCHANGED <<species, done_formulae_file, done_IDs_file, formulae, IDs, done_formulae,
                   done_IDs, i, ids, j, run, cur, marked>>
    /\ UNCHANGED <<supVars, torn>>

\* part_000:103
FormulaJdx ==
    /\ pc = "f_jdx"
    /\ get_jdx(ids[j], cur, "f_mol")
    /\ j' = IF pc' = "aborted" THEN j ELSE j + 1
    /\ UNCHANGED <<species, done_formulae_file, done_IDs_file, formulae, IDs, done_formulae,
                   done_IDs, i, ids, run, cur, marked>>
    /\ UNCHANGED <<supVars, torn>>

\* part_000:133-134: the append to done_formulae.txt, made when `returned` holds
WriteDoneFormula(returned) ==
    /\ pc = "f_mol"
    /\ returned
    /\ done_formulae_file' = AppendRecord(done_formulae_file, formulae[i])
    /\ marked' = marked \cup {[run |-> run, cat |-> "formula", key |-> formulae[i]]}
    /\ i' = i + 1
    /\ cur' = NoItem
    /\ outcomes' = {}
    /\ pc' = "formulae"
    /\ UNCHANGED <<limVars, species, done_IDs_file, mol_files, jdx_files, formulae, IDs,
                   done_formulae, done_IDs, ids, j, run, reqlog, errors>>
    /\ UNCHANGED <<supVars, torn>>

MarkFormulaInsideLoop == WriteDoneFormula(j <= Len(ids))

\* part_000:132-134: the append follows the return of retreive_data_from_formula,
\* that is the end of its loop over ids (part_000:101)
MarkFormula == WriteDoneFormula(j > Len(ids))

\* What a write of `record` that is interrupted leaves in the file: a proper
\* prefix of it, which may be empty
Prefixes(record) == {SubSeq(record, 1, n) : n \in 0..(Len(record) - 1)}

\* part_000:133-134, interrupted while it writes (the process is killed, the
\* disk is full): part of the record is in the file and the run has ended
InterruptedMarkFormula ==
    /\ pc = "f_mol"
    /\ j > Len(ids)
    /\ \E written \in Prefixes(formulae[i] \o <<NL>>) :
          /\ done_formulae_file' = done_formulae_file \o written
          /\ torn' = torn \cup {[run |-> run, cat |-> "formula", key |-> formulae[i],
                                  written |-> written]}
    /\ pc' = "aborted"
    /\ UNCHANGED <<limVars, species, done_IDs_file, mol_files, jdx_files, formulae, IDs,
                   done_formulae, done_IDs, i, ids, j, run, cur, outcomes, reqlog, marked,
                   errors>>
    /\ UNCHANGED supVars

LoopOverFormulaeEndsEarly == i >= Len(formulae)

\* part_000:129: the loop over formulae has gone through the whole list
LoopOverFormulaeEnds == i > Len(formulae)

\* part_000:135-143: the formulas are through; load done_IDs.txt
StartIDs ==
    /\ pc = "formulae"
    /\ LoopOverFormulaeEnds
    /\ done_IDs' = LoadDone(done_IDs_file)
    /\ i' = 1
    /\ pc' = "ids"
    /\ UNCHANGED <<limVars, diskVars, formulae, IDs, done_formulae, ids, j, run, cur,
                   outcomes, reqlog, marked, errors>>
    /\ UNCHANGED <<supVars, torn>>

\* part_000:145-146
SkipID ==
    /\ pc = "ids"
    /\ i <= Len(IDs)
    /\ IDs[i] \in done_IDs
    /\ i' = i + 1
    /\ UNCHANGED <<limVars, diskVars, pc, formulae, IDs, done_formulae, done_IDs, ids, j,
                   run, cur, outcomes, reqlog, marked, errors>>
    /\ UNCHANGED <<supVars, torn>>

\* part_000:147
IDMol ==
    /\ pc = "ids"
    /\ i <= Len(IDs)
    /\ IDs[i] \notin done_IDs
    /\ cur' = [cat |-> "id", key |-> IDs[i]]
    /\ get_mol(IDs[i], cur', "id_jdx")
    /\ UNCHANGED <<species, done_formulae_file, done_IDs_file, formulae, IDs, done_formulae,
                   done_IDs, i, ids, j, run, marked>>
    /\ UNCHANGED <<supVars, torn>>

\* part_000:148
IDJdx ==
    /\ pc = "id_jdx"
    /\ get_jdx(IDs[i], cur, "id_mark")
    /\ UNCHANGED <<species, done_formulae_file, done_IDs_file, formulae, IDs, done_formulae,
                   done_IDs, i, ids, j, run, cur, marked>>
    /\ UNCHANGED <<supVars, torn>>

\* part_000:149-150
MarkID ==
    /\ pc = "id_mark"
    /\ done_IDs_file' = AppendRecord(done_IDs_file, IDs[i])
    /\ marked' = marked \cup {[run |-> run, cat |-> "id", key |-> IDs[i]]}
    /\ i' = i + 1
    /\ cur' = NoItem
    /\ outcomes' = {}
    /\ pc' = "ids"
    /\ UNCHANGED <<limVars, species, done_formulae_file, mol_files, jdx_files, formulae, IDs,
                   done_formulae, done_IDs, ids, j, run, reqlog, errors>>
    /\ UNCHANGED <<supVars, torn>>

\* part_000:149-150, interrupted while it writes
InterruptedMarkID ==
    /\ pc = "id_mark"
    /\ \E written \in Prefixes(IDs[i] \o <<NL>>) :
          /\ done_IDs_file' = done_IDs_file \o written
          /\ torn' = torn \cup {[run |-> run, cat |-> "id", key |-> IDs[i],
                                  written |-> written]}
    /\ pc' = "aborted"
    /\ UNCHANGED <<limVars, species, done_formulae_file, mol_files, jdx_files, formulae, IDs,
                   done_formulae, done_IDs, i, ids, j, run, cur, outcomes, reqlog, marked,
                   errors>>
    /\ UNCHANGED supVars

\* part_000:151: the process exits with status 0
Finish ==
    /\ pc = "ids"
    /\ i > Len(IDs)
    /\ pc' = "done"
    /\ UNCHANGED <<limVars, diskVars, formulae, IDs, done_formulae, done_IDs, i, ids, j,
                   run, cur, outcomes, reqlog, marked, errors>>
    /\ UNCHANGED <<supVars, torn>>

-----------------------------------------------------------------------------
(* The supervisor's text, supervised_scraper.py:20-51 *)

PatConnectionRefused ==
    <<"C", "o", "n", "n", "e", "c", "t", "i", "o", "n", " ", "r", "e", "f", "u", "s",
      "e", "d">>
PatConnectionResetByPeer ==
    <<"C", "o", "n", "n", "e", "c", "t", "i", "o", "n", " ", "r", "e", "s", "e", "t",
      " ", "b", "y", " ", "p", "e", "e", "r">>
PatTimeout ==
    <<"t", "i", "m", "e", "o", "u", "t">>
PatTooManyRequests ==
    <<"T", "o", "o", " ", "m", "a", "n", "y", " ", "r", "e", "q", "u", "e", "s", "t",
      "s">>
PatRateLimit ==
    <<"r", "a", "t", "e", " ", "l", "i", "m", "i", "t">>
PatHTTPError ==
    <<"H", "T", "T", "P", "E", "r", "r", "o", "r">>
PatSSLError ==
    <<"S", "S", "L", "E", "r", "r", "o", "r">>
PatConnectionError ==
    <<"C", "o", "n", "n", "e", "c", "t", "i", "o", "n", "E", "r", "r", "o", "r">>
PatMaxRetriesExceeded ==
    <<"M", "a", "x", " ", "r", "e", "t", "r", "i", "e", "s", " ", "e", "x", "c", "e",
      "e", "d", "e", "d">>
PatChunkedEncodingError ==
    <<"C", "h", "u", "n", "k", "e", "d", "E", "n", "c", "o", "d", "i", "n", "g", "E",
      "r", "r", "o", "r">>
PatReadTimeout ==
    <<"R", "e", "a", "d", "T", "i", "m", "e", "o", "u", "t">>
PatConnectTimeout ==
    <<"C", "o", "n", "n", "e", "c", "t", "T", "i", "m", "e", "o", "u", "t">>

\* supervised_scraper.py:32-45
failure_patterns ==
    <<PatConnectionRefused,
      PatConnectionResetByPeer,
      PatTimeout,
      PatTooManyRequests,
      PatRateLimit,
      PatHTTPError,
      PatSSLError,
      PatConnectionError,
      PatMaxRetriesExceeded,
      PatChunkedEncodingError,
      PatReadTimeout,
      PatConnectTimeout>>

UpperCase ==
    <<"A", "B", "C", "D", "E", "F", "G", "H", "I", "J", "K", "L", "M",
      "N", "O", "P", "Q", "R", "S", "T", "U", "V", "W", "X", "Y", "Z">>
LowerCase ==
    <<"a", "b", "c", "d", "e", "f", "g", "h", "i", "j", "k", "l", "m",
      "n", "o", "p", "q", "r", "s", "t", "u", "v", "w", "x", "y", "z">>

\* Case folding of one character, as re.IGNORECASE compares
FoldMap ==
    [c \in Range(UpperCase) |-> LowerCase[CHOOSE n \in 1..Len(UpperCase) : UpperCase[n] = c]]
Fold(c) == IF c \in DOMAIN FoldMap THEN FoldMap[c] ELSE c

\* supervised_scraper.py:48, re.IGNORECASE: both sides are compared case-folded
FoldText(s) == [n \in 1..Len(s) |-> Fold(s[n])]

\* Whether `pattern` occurs in `text` as a substring
Occurs(pattern, text) ==
    \E k \in 0..(Len(text) - Len(pattern)) :
        \A m \in 1..Len(pattern) : text[k + m] = pattern[m]

\* supervised_scraper.py:29-51: re.search(pattern, log_content, re.IGNORECASE) for
\* each pattern; none has a metacharacter
is_failure(log_content) ==
    LET folded == FoldText(log_content)
    IN  \E n \in 1..Len(failure_patterns) : Occurs(FoldText(failure_patterns[n]), folded)

\* str(n) of a natural number
RECURSIVE Digits(_)
Digits(n) ==
    LET d == <<"0", "1", "2", "3", "4", "5", "6", "7", "8", "9">>
    IN  IF n < 10 THEN <<d[n + 1]>> ELSE Digits(n \div 10) \o <<d[(n % 10) + 1]>>

\* The lines log_message writes (supervised_scraper.py:20-27), without their timestamps
MsgHeader ==
    <<"S", "t", "a", "r", "t", "i", "n", "g", " ", "s", "u", "p", "e", "r", "v", "i",
      "s", "e", "d", " ", "s", "c", "r", "a", "p", "e", "r", " ", "a", "t", " ">>
MsgStarting ==
    <<"S", "t", "a", "r", "t", "i", "n", "g", " ", "s", "u", "p", "e", "r", "v", "i",
      "s", "e", "d", " ", "s", "c", "r", "a", "p", "e", "r", NL>>
MsgFailedCode ==
    <<"S", "c", "r", "a", "p", "e", "r", " ", "f", "a", "i", "l", "e", "d", " ", "w",
      "i", "t", "h", " ", "r", "e", "t", "u", "r", "n", " ", "c", "o", "d", "e", " ">>
MsgCompleted ==
    <<"S", "c", "r", "a", "p", "e", "r", " ", "c", "o", "m", "p", "l", "e", "t", "e",
      "d", " ", "s", "u", "c", "c", "e", "s", "s", "f", "u", "l", "l", "y", NL>>
MsgError ==
    <<"E", "r", "r", "o", "r", " ", "r", "u", "n", "n", "i", "n", "g", " ", "s", "c",
      "r", "a", "p", "e", "r", ":", " ", "d", "e", "c", "o", "d", "e", " ", "e", "r",
      "r", "o", "r", NL>>
MsgExiting ==
    <<"S", "c", "r", "a", "p", "e", "r", " ", "c", "o", "m", "p", "l", "e", "t", "e",
      "d", " ", "s", "u", "c", "c", "e", "s", "s", "f", "u", "l", "l", "y", ",", " ",
      "e", "x", "i", "t", "i", "n", "g", NL>>
MsgThreshold ==
    <<"F", "a", "i", "l", "u", "r", "e", " ", "t", "h", "r", "e", "s", "h", "o", "l",
      "d", " ", "e", "x", "c", "e", "e", "d", "e", "d", ":", " ">>
MsgTooMany ==
    <<"T", "o", "o", " ", "m", "a", "n", "y", " ", "f", "a", "i", "l", "u", "r", "e",
      "s", " ", "i", "n", " ", "a", " ", "s", "h", "o", "r", "t", " ", "t", "i", "m",
      "e", " ", "p", "e", "r", "i", "o", "d", ".", " ", "S", "t", "o", "p", "p", "i",
      "n", "g", " ", "s", "c", "r", "i", "p", "t", ".", NL>>
MsgRestarting ==
    <<"S", "c", "r", "a", "p", "e", "r", " ", "f", "a", "i", "l", "e", "d", ",", " ",
      "r", "e", "s", "t", "a", "r", "t", "i", "n", "g", " ", "i", "n", " ">>
MsgGivingUp ==
    <<"M", "a", "x", "i", "m", "u", "m", " ", "r", "e", "s", "t", "a", "r", "t", " ",
      "a", "t", "t", "e", "m", "p", "t", "s", " ", "(">>
TxtFailuresInLast ==
    <<" ", "f", "a", "i", "l", "u", "r", "e", "s", " ", "i", "n", " ", "t", "h", "e",
      " ", "l", "a", "s", "t", " ">>
TxtMinutes ==
    <<" ", "m", "i", "n", "u", "t", "e", "s", NL>>
TxtSecondsAttempt ==
    <<" ", "s", "e", "c", "o", "n", "d", "s", " ", "(", "a", "t", "t", "e", "m", "p",
      "t", " ">>
TxtSlash ==
    <<"/">>
TxtParen ==
    <<")", NL>>
TxtReached ==
    <<")", " ", "r", "e", "a", "c", "h", "e", "d", ",", " ", "g", "i", "v", "i", "n",
      "g", " ", "u", "p", NL>>

\* Lines a child may print
LineSaving ==
    <<"S", "a", "v", "i", "n", "g", " ", "7", ".", "m", "o", "l", NL>>
LineReset ==
    <<"C", "o", "n", "n", "e", "c", "t", "i", "o", "n", " ", "r", "e", "s", "e", "t",
      " ", "b", "y", " ", "p", "e", "e", "r", NL>>
LineTimeout ==
    <<"r", "e", "q", "u", "e", "s", "t", "s", ".", "e", "x", "c", "e", "p", "t", "i",
      "o", "n", "s", ".", "T", "i", "m", "e", "o", "u", "t", NL>>

-----------------------------------------------------------------------------
(* The supervisor, supervised_scraper.py:53-150 *)

RESTART_DELAY == 60     \* supervised_scraper.py:16
\* The source sets MAX_RESTARTS = 10000 and FAILURE_THRESHOLD = (20, 25); the
\* model runs the same code with a smaller configuration.
MAX_RESTARTS == 3
max_failures == 2
time_window_minutes == 10
FailureHistoryLen == 1000   \* supervised_scraper.py:122

\* process.poll() of a child that has not exited, and main() not yet returned
NoExit == -1
\* No child process that run_scraper waits for
NoChild ==
    [alive |-> FALSE, todo |-> <<>>, pipe |-> <<>>, rc |-> NoExit, will |-> NoExit, bad |-> FALSE,
     born |-> 0, sent |-> <<>>]

\* The children tried: what one prints, its exit status, and whether what it
\* prints holds a failure pattern in some letter case
ChildRuns ==
    { [out |-> <<LineSaving>>, rc |-> 0, bad |-> FALSE],
      [out |-> <<LineSaving>>, rc |-> 1, bad |-> FALSE],
      [out |-> <<LineSaving, LineReset>>, rc |-> 0, bad |-> TRUE],
      [out |-> <<LineTimeout>>, rc |-> 0, bad |-> TRUE] }
\* How long a child runs. With Slack, max_failures failures in a row span
\* exactly the window; with one second more, the first has aged out
Slack == time_window_minutes * 60 - (max_failures - 1) * RESTART_DELAY
Durations == {0, Slack, Slack + 1}

\* log_message, supervised_scraper.py:20-27 (the timestamp left out)
log_message(text, message) == text \o message

CountRecentStrict(failure_timestamps_, current_time, time_window) ==
    Cardinality({n \in 1..Len(failure_timestamps_) :
                    current_time - failure_timestamps_[n] < time_window})
\* supervised_scraper.py:109-110
CountRecent(failure_timestamps_, current_time, time_window) ==
    Cardinality({n \in 1..Len(failure_timestamps_) :
                    current_time - failure_timestamps_[n] <= time_window})

\* supervised_scraper.py:94-117, the answer of check_failure_threshold at current_time
check_failure_threshold(failure_timestamps_, current_time) ==
    IF Len(failure_timestamps_) < max_failures THEN FALSE
    ELSE CountRecent(failure_timestamps_, current_time, time_window_minutes * 60)
            >= max_failures

\* supervised_scraper.py:114, the line check_failure_threshold logs when it answers True
ThresholdMessage(failure_timestamps_, current_time) ==
    MsgThreshold
        \o Digits(CountRecent(failure_timestamps_, current_time, time_window_minutes * 60))
        \o TxtFailuresInLast \o Digits(time_window_minutes) \o TxtMinutes

\* supervised_scraper.py:119-128
Main ==
    /\ UNCHANGED evaluated_at
    /\ UNCHANGED nerrors
    /\ UNCHANGED max_restarts
    /\ sup_pc = "main"
    /\ restart_count' = 0
    /\ failure_timestamps' = <<>>
    /\ log' = log_message(MsgHeader \o Digits(now) \o <<NL>>, MsgStarting)
    /\ sup_pc' = "loop"
    /\ UNCHANGED <<child, orphans, exit_code, transcript, attempts, failure_history, tripped>>
    /\ UNCHANGED <<limVars, diskVars, runVars>>

\* supervised_scraper.py:57-64: run_scraper starts a child, when main's loop goes on
StartChild(goes_on) ==
    /\ UNCHANGED evaluated_at
    /\ UNCHANGED nerrors
    /\ UNCHANGED max_restarts
    /\ sup_pc = "loop"
    /\ goes_on
    /\ \E c \in ChildRuns :
          child' = [alive |-> TRUE, todo |-> c.out, pipe |-> <<>>, rc |-> NoExit,
                    will |-> c.rc, bad |-> c.bad, born |-> now, sent |-> <<>>]
    /\ transcript' = <<>>
    /\ sup_pc' = "reading"
    /\ request_timestamps' = <<>>      \* part_000:25, in the new process
    /\ UNCHANGED <<restart_count, failure_timestamps, log, orphans, exit_code, attempts,
                   failure_history, tripped>>
    /\ UNCHANGED <<now, issued, nreq, diskVars, runVars>>

SpawnOffByOne == StartChild(restart_count <= max_restarts)

\* supervised_scraper.py:130-131
Spawn == StartChild(restart_count < max_restarts)

\* The child prints its next line
ChildEmit ==
    /\ UNCHANGED evaluated_at
    /\ UNCHANGED nerrors
    /\ UNCHANGED max_restarts
    /\ child.alive
    /\ child.todo # <<>>
    /\ child' = [child EXCEPT !.todo = Tail(@), !.pipe = Append(@, Head(child.todo)),
                              !.sent = Append(@, Head(child.todo))]
    /\ UNCHANGED <<sup_pc, restart_count, failure_timestamps, log, orphans, exit_code,
                   transcript, attempts, failure_history, tripped>>
    /\ UNCHANGED <<limVars, diskVars, runVars>>

\* The child exits, having run for some time
ChildExit ==
    /\ UNCHANGED evaluated_at
    /\ UNCHANGED nerrors
    /\ UNCHANGED max_restarts
    /\ child.alive
    /\ child.todo = <<>>
    /\ child' = [child EXCEPT !.alive = FALSE, !.rc = child.will]
    /\ \E d \in Durations : now' = now + d
    /\ UNCHANGED <<sup_pc, restart_count, failure_timestamps, log, orphans, exit_code,
                   transcript, attempts, failure_history, tripped>>
    /\ UNCHANGED <<request_timestamps, issued, nreq, diskVars, runVars>>

\* supervised_scraper.py:69-74: readline returns a line, which is written to the log
ReadLine ==
    /\ UNCHANGED evaluated_at
    /\ UNCHANGED nerrors
    /\ UNCHANGED max_restarts
    /\ sup_pc = "reading"
    /\ child.pipe # <<>>
    /\ log' = log \o Head(child.pipe)
    /\ transcript' = transcript \o Head(child.pipe)
    /\ child' = [child EXCEPT !.pipe = Tail(@)]
    /\ UNCHANGED <<sup_pc, restart_count, failure_timestamps, orphans, exit_code, attempts,
                   failure_history, tripped>>
    /\ UNCHANGED <<limVars, diskVars, runVars>>

RunFailedBoth(return_code, log_content) == return_code # 0 /\ is_failure(log_content)

\* supervised_scraper.py:83, on the whole text of the log file (:80-81)
RunFailed(return_code, log_content) == return_code # 0 \/ is_failure(log_content)

\* supervised_scraper.py:69-71: readline returned "" (the stream is at its end)
\* and process.poll() is not None (the child has exited)
ReadLoopEnds == child.pipe = <<>> /\ ~child.alive

\* supervised_scraper.py:70-71 and :77-88: the read loop has ended; run_scraper
\* classifies the run and returns
Classify ==
    /\ UNCHANGED evaluated_at
    /\ UNCHANGED nerrors
    /\ UNCHANGED max_restarts
    /\ sup_pc = "reading"
    /\ ReadLoopEnds
    /\ LET return_code == child.rc
           log_content == log
       IN  \E failed \in {RunFailed(return_code, log_content)} :
              /\ log' = IF failed
                        THEN log_message(log, MsgFailedCode \o Digits(return_code) \o <<NL>>)
                        ELSE log_message(log, MsgCompleted)
              /\ sup_pc' = IF failed THEN "failed" ELSE "succeeded"
              /\ attempts' = Append(attempts,
                    [sig |-> child.bad, rc |-> return_code, how |-> "classified",
                     class |-> IF failed THEN "Failed" ELSE "Succeeded"])
    /\ child' = NoChild
    /\ UNCHANGED <<restart_count, failure_timestamps, orphans, exit_code, transcript,
                   failure_history, tripped>>
    /\ UNCHANGED <<limVars, diskVars, runVars>>

\* supervised_scraper.py:90-92: an exception inside the read loop (the next line
\* cannot be decoded, or cannot be written to the log); run_scraper returns
\* False at once, whether the child has exited or not
ReadError ==
    /\ UNCHANGED evaluated_at
    /\ UNCHANGED max_restarts
    /\ sup_pc = "reading"
    /\ child.pipe # <<>>
    /\ nerrors < MaxReadErrors
    /\ nerrors' = nerrors + 1
    /\ log' = log_message(log, MsgError)
    /\ sup_pc' = "failed"
    /\ attempts' = Append(attempts,
          [sig |-> child.bad, rc |-> child.rc, how |-> "exception", class |-> "Failed"])
    /\ orphans' = IF child.alive THEN Append(orphans, request_timestamps) ELSE orphans
    /\ child' = NoChild
    /\ UNCHANGED <<restart_count, failure_timestamps, exit_code, transcript, failure_history,
                   tripped>>
    /\ UNCHANGED <<limVars, diskVars, runVars>>

\* A child that run_scraper left behind exits
OrphanExit ==
    /\ UNCHANGED evaluated_at
    /\ UNCHANGED nerrors
    /\ UNCHANGED max_restarts
    /\ \E k \in 1..Len(orphans) :
          orphans' = SubSeq(orphans, 1, k - 1) \o SubSeq(orphans, k + 1, Len(orphans))
    /\ UNCHANGED <<sup_pc, restart_count, failure_timestamps, log, child, exit_code,
                   transcript, attempts, failure_history, tripped>>
    /\ UNCHANGED <<limVars, diskVars, runVars>>

\* The child that run_scraper waits for sends a request (part_000:27-45)
ChildRequest ==
    /\ child.alive
    /\ nreq < QuotaRequests
    /\ RateLimitedRequest(now, MaxLatency, 0, FALSE)
    /\ UNCHANGED <<diskVars, runVars, supVars>>

\* A child that run_scraper left behind sends a request, held back by its own
\* request_timestamps (part_000:27-45)
OrphanRequest ==
    /\ nreq < QuotaRequests
    /\ \E k \in 1..Len(orphans) :
          LET current_time == now
              sent == current_time + sleep_time(orphans[k], current_time)
              returned == sent + MaxLatency
          IN  /\ now' = returned
              /\ issued' = DequeAppend(issued, sent, K + 1)
              /\ nreq' = nreq + 1
              /\ orphans' = [orphans EXCEPT ![k] = DequeAppend(@, returned, K)]
    /\ UNCHANGED <<request_timestamps, diskVars, runVars>>
    /\ UNCHANGED <<sup_pc, restart_count, failure_timestamps, log, child, exit_code,
                   transcript, attempts, failure_history, tripped, evaluated_at, nerrors,
                   max_restarts>>

\* supervised_scraper.py:131-133
OnSuccess ==
    /\ UNCHANGED evaluated_at
    /\ UNCHANGED nerrors
    /\ UNCHANGED max_restarts
    /\ sup_pc = "succeeded"
    /\ log' = log_message(log, MsgExiting)
    /\ exit_code' = 0
    /\ sup_pc' = "exited"
    /\ UNCHANGED <<restart_count, failure_timestamps, child, orphans, transcript, attempts,
                   failure_history, tripped>>
    /\ UNCHANGED <<limVars, diskVars, runVars>>

count_restart_never(n) == n

\* supervised_scraper.py:143, restart_count += 1
count_restart(n) == n + 1

sleep_skipped(seconds) == now' = now

\* supervised_scraper.py:147, time.sleep(seconds)
sleep(seconds) == now' = now + seconds

\* supervised_scraper.py:135-147: the failure is recorded and the threshold checked;
\* main returns 1, or counts the restart and sleeps
OnFailure ==
    /\ UNCHANGED nerrors
    /\ UNCHANGED max_restarts
    /\ sup_pc = "failed"
    /\ LET stamps == DequeAppend(failure_timestamps, now, FailureHistoryLen)
           current_time == now
           over == check_failure_threshold(stamps, current_time)
       IN  /\ failure_timestamps' = stamps
           /\ failure_history' = Append(failure_history, now)
           /\ tripped' = over
           /\ evaluated_at' = current_time
           /\ IF over
              THEN /\ log' = log_message(
                               log_message(log, ThresholdMessage(stamps, current_time)),
                               MsgTooMany)
                   /\ exit_code' = 1
                   /\ sup_pc' = "exited"
                   /\ UNCHANGED <<restart_count, now>>
              ELSE /\ restart_count' = count_restart(restart_count)
                   /\ log' = log_message(log,
                               MsgRestarting \o Digits(RESTART_DELAY) \o TxtSecondsAttempt
                                  \o Digits(restart_count') \o TxtSlash
                                  \o Digits(max_restarts) \o TxtParen)
                   /\ sleep(RESTART_DELAY)
                   /\ exit_code' = exit_code
                   /\ sup_pc' = "loop"
    /\ UNCHANGED <<child, orphans, transcript, attempts>>
    /\ UNCHANGED <<request_timestamps, issued, nreq, diskVars, runVars>>

\* supervised_scraper.py:130 and :149: the restart budget is used up; main logs it
\* and returns `code`
LeaveLoop(code) ==
    /\ UNCHANGED evaluated_at
    /\ UNCHANGED nerrors
    /\ UNCHANGED max_restarts
    /\ sup_pc = "loop"
    /\ ~(restart_count < max_restarts)
    /\ log' = log_message(log, MsgGivingUp \o Digits(max_restarts) \o TxtReached)
    /\ exit_code' = code
    /\ sup_pc' = "exited"
    /\ UNCHANGED <<restart_count, failure_timestamps, child, orphans, transcript, attempts,
                   failure_history, tripped>>
    /\ UNCHANGED <<limVars, diskVars, runVars>>

GiveUpReturnsNone == LeaveLoop(0)

\* supervised_scraper.py:150
GiveUp == LeaveLoop(1)

-----------------------------------------------------------------------------
(* The specifications *)

InitOn(manifests, budgets) ==
    /\ now = 0
    /\ request_timestamps = <<>>
    /\ issued = <<>>
    /\ nreq = 0
    /\ species \in manifests
    /\ done_formulae_file = <<>>
    /\ done_IDs_file = <<>>
    /\ mol_files = [r \in RecordIDs |-> NoFile]
    /\ jdx_files = [r \in RecordIDs |-> NoFile]
    /\ pc = "idle"
    /\ formulae = <<>>
    /\ IDs = <<>>
    /\ done_formulae = {}
    /\ done_IDs = {}
    /\ i = 1
    /\ ids = <<>>
    /\ j = 1
    /\ run = 0
    /\ cur = NoItem
    /\ outcomes = {}
    /\ reqlog = {}
    /\ marked = {}
    /\ errors = {}
    /\ torn = {}
    /\ sup_pc = "main"
    /\ max_restarts \in budgets
    /\ restart_count = 0
    /\ failure_timestamps = <<>>
    /\ log = <<>>
    /\ child = NoChild
    /\ orphans = <<>>
    /\ exit_code = NoExit
    /\ transcript = <<>>
    /\ attempts = <<>>
    /\ failure_history = <<>>
    /\ tripped = FALSE
    /\ evaluated_at = 0
    /\ nerrors = 0

Init == InitOn(Manifests, {MAX_RESTARTS})

Next ==
    \/ StartRun
    \/ SkipFormula
    \/ Search
    \/ FormulaMol
    \/ FormulaJdx
    \/ MarkFormula
    \/ StartIDs
    \/ SkipID
    \/ IDMol
    \/ IDJdx
    \/ MarkID
    \/ Finish

Spec == Init /\ [][Next]_vars

\* The fetch loop on a disk where an append may be interrupted. The manifests
\* tried: a formula that begins with another formula of the manifest, and a
\* formula followed by record IDs
ManifestsInterrupted ==
    { <<EntryCO, EntryC>>,
      <<EntryCO, Entry7, Entry7>> }

InitInterrupted == InitOn(ManifestsInterrupted, {MAX_RESTARTS})

NextInterrupted ==
    \/ Next
    \/ InterruptedMarkFormula
    \/ InterruptedMarkID

SpecInterrupted == InitInterrupted /\ [][NextInterrupted]_vars

NextLimiter == LimiterCall

\* The manifest plays no part outside the fetch loop
InitOther == Init /\ species = <<EntryC, EntryC>>

SpecLimiter == InitOther /\ [][NextLimiter]_vars

NextSupervisor ==
    \/ Main
    \/ Spawn
    \/ ChildEmit
    \/ ChildExit
    \/ ReadLine
    \/ Classify
    \/ ReadError
    \/ OrphanExit
    \/ OnSuccess
    \/ OnFailure
    \/ GiveUp

SpecSupervisor == InitOther /\ [][NextSupervisor]_vars

\* The supervisor around children that send requests
NextQuota ==
    \/ NextSupervisor
    \/ ChildRequest
    \/ OrphanRequest

InitQuota == InitOn({<<EntryC, EntryC>>}, {FewRestarts})

SpecQuota == InitQuota /\ [][NextQuota]_vars

\* The supervisor with a small restart budget or none, every child
\* going on until it exits and main going on until it returns. An exception in
\* run_scraper may happen or not.
InitBudgets == InitOn({<<EntryC, EntryC>>}, {0, FewRestarts})

FairSupervisor ==
    /\ WF_vars(Main)
    /\ WF_vars(Spawn)
    /\ WF_vars(ChildEmit)
    /\ WF_vars(ChildExit)
    /\ WF_vars(ReadLine)
    /\ WF_vars(Classify)
    /\ WF_vars(OnSuccess)
    /\ WF_vars(OnFailure)
    /\ WF_vars(GiveUp)

SpecSupervisorFair == InitBudgets /\ [][NextSupervisor]_vars /\ FairSupervisor

-----------------------------------------------------------------------------
(* The claims *)

\* C1: within one process, no trailing window of T seconds holds more than K
\* requests sent (the window ending at the sending of any request, its start
\* excluded), and every timestamp the limiter holds was taken no earlier than
\* the sending of the request it stands for.
C1_Quota ==
    /\ \A n \in 1..Len(issued) :
          Cardinality({m \in 1..Len(issued) :
                          issued[n] - T < issued[m] /\ issued[m] <= issued[n]}) <= K
    /\ Len(request_timestamps) <= Len(issued)
    /\ \A n \in 1..Len(request_timestamps) :
          request_timestamps[n] >= issued[Len(issued) - Len(request_timestamps) + n]

\* K + 1 requests were sent and the last was held back until T after the first
C1_Witness ==
    /\ Len(issued) = K + 1
    /\ issued[K + 1] - issued[1] = T
    /\ nreq > K + 1

\* C2: no request is sent for an item whose key an earlier run appended to its
\* checkpoint file, and a run that finds every item of the manifest appended by
\* earlier runs sends no request at all.
MarkedBefore(cat, key, r) ==
    \E m \in marked : m.cat = cat /\ m.key = key /\ m.run < r

AllMarkedBefore(r) ==
    /\ \A key \in Range(ParseFormulae(species)) : MarkedBefore("formula", key, r)
    /\ \A key \in Range(ParseIDs(species)) : MarkedBefore("id", key, r)

C2_DoneIsSkipped ==
    /\ \A q \in reqlog : ~MarkedBefore(q.cat, q.key, q.run)
    /\ AllMarkedBefore(run) => ~\E q \in reqlog : q.run = run

\* A later run went through a manifest that was all done, without a request
C2_Witness ==
    /\ pc = "done"
    /\ run > 1
    /\ AllMarkedBefore(run)
    /\ ~\E q \in reqlog : q.run = run

\* C3: whenever the membership test (part_000:130 and :145) is made for a key
\* that was marked done, in this run or in an earlier one, it finds the key in
\* the set it reads.
C3_MarkedIsDone ==
    /\ (/\ pc = "formulae"
        /\ i <= Len(formulae)
        /\ \E m \in marked : m.cat = "formula" /\ m.key = formulae[i])
          => formulae[i] \in done_formulae
    /\ (/\ pc = "ids"
        /\ i <= Len(IDs)
        /\ \E m \in marked : m.cat = "id" /\ m.key = IDs[i])
          => IDs[i] \in done_IDs

\* C4: a checkpoint file changes only by the append of the key of the item
\* being processed, once the item's search and both fetches of every record ID
\* have ended as Saved, Skipped or NotFound in this run; the step at which a
\* request raises writes nothing; the files hold no key but those so appended;
\* and the run after an abort starts every item from its first step.
Attempted(nistid, kind) ==
    \E o \in {"Saved", "Skipped", "NotFound"} : <<nistid, kind, o>> \in outcomes

FormulaComplete ==
    /\ cur # NoItem
    /\ [run |-> run, cat |-> "formula", key |-> cur.key] \in reqlog
    /\ \A n \in 1..Len(ids) : Attempted(ids[n], "mol") /\ Attempted(ids[n], "jdx")

IDComplete ==
    /\ cur # NoItem
    /\ Attempted(cur.key, "mol") /\ Attempted(cur.key, "jdx")

C4_Step ==
    /\ done_formulae_file' # done_formulae_file =>
          /\ FormulaComplete
          /\ cur.cat = "formula"
          /\ done_formulae_file' = done_formulae_file \o cur.key \o <<NL>>
    /\ done_IDs_file' # done_IDs_file =>
          /\ IDComplete
          /\ cur.cat = "id"
          /\ done_IDs_file' = done_IDs_file \o cur.key \o <<NL>>
    /\ (pc' = "aborted" /\ pc # "aborted") =>
          /\ cur' # NoItem
          /\ done_formulae_file' = done_formulae_file
          /\ done_IDs_file' = done_IDs_file
    /\ (pc = "aborted" /\ pc' # "aborted") =>
          /\ pc' = "formulae" /\ i' = 1 /\ ids' = <<>> /\ j' = 1 /\ outcomes' = {}
          /\ \A key \in Range(formulae') :
                (~\E m \in marked : m.cat = "formula" /\ m.key = key) => key \notin done_formulae'

C4_Files ==
    /\ \A line \in Range(ReadLines(done_formulae_file)) :
          \E m \in marked : m.cat = "formula" /\ line = m.key \o <<NL>>
    /\ \A line \in Range(ReadLines(done_IDs_file)) :
          \E m \in marked : m.cat = "id" /\ line = m.key \o <<NL>>

PendingMol ==
    IF pc = "f_mol" /\ j <= Len(ids) THEN {ids[j]}
    ELSE IF pc = "ids" /\ i <= Len(IDs) /\ IDs[i] \notin done_IDs THEN {IDs[i]}
    ELSE {}

PendingJdx ==
    IF pc = "f_jdx" THEN {ids[j]}
    ELSE IF pc = "id_jdx" THEN {IDs[i]}
    ELSE {}

C5_Step ==
    /\ \A nistid \in PendingMol :
          mol_files[nistid] # NoFile =>
              nreq' = nreq /\ reqlog' = reqlog /\ mol_files' = mol_files /\ pc' # "aborted"
    /\ \A nistid \in PendingJdx :
          jdx_files[nistid] # NoFile =>
              nreq' = nreq /\ reqlog' = reqlog /\ jdx_files' = jdx_files /\ pc' # "aborted"

C5_PresentNotFetched == [][C5_Step]_vars

\* A fetch was skipped while both checkpoint files were empty
C5_Witness ==
    /\ \E o \in outcomes : o[3] = "Skipped"
    /\ done_formulae_file = <<>>
    /\ done_IDs_file = <<>>
    /\ nreq > 0

\* C6: a run that run_scraper classified, whose child exited with status 0 and
\* printed no failure pattern, is classified Succeeded.
C6_OwnOutputDecides ==
    \A n \in 1..Len(attempts) :
        (attempts[n].how = "classified" /\ attempts[n].rc = 0 /\ ~attempts[n].sig)
            => attempts[n].class = "Succeeded"

\* C7: a run whose child exited with a status other than 0, or printed a
\* failure pattern in some letter case, is classified Failed, and main never
\* returns 0 with such a run as its last.
C7_FailureIsFailed ==
    /\ \A n \in 1..Len(attempts) :
          (attempts[n].rc # 0 \/ attempts[n].sig) => attempts[n].class = "Failed"
    /\ exit_code = 0 =>
          /\ attempts # <<>>
          /\ attempts[Len(attempts)].rc = 0
          /\ ~attempts[Len(attempts)].sig

\* A child printed a failure pattern, exited with status 0, and its run is Failed
C7_Witness ==
    \E n \in 1..Len(attempts) :
        /\ attempts[n].how = "classified"
        /\ attempts[n].rc = 0
        /\ attempts[n].sig
        /\ attempts[n].class = "Failed"

\* C8: the last evaluation of the threshold answered True exactly when at least
\* max_failures of all the failures recorded so far lay no more than
\* time_window_minutes before the evaluation; with fewer than max_failures
\* failures recorded it answered False.
RecentFailures ==
    {n \in 1..Len(failure_history) :
        evaluated_at - failure_history[n] <= time_window_minutes * 60}

C8_TripsIffRecent ==
    /\ failure_history # <<>> => (tripped <=> Cardinality(RecentFailures) >= max_failures)
    /\ Len(failure_history) < max_failures => ~tripped

\* The threshold tripped although an earlier failure had aged out of the window
C8_Witness ==
    /\ tripped
    /\ Len(failure_history) > max_failures
    /\ Cardinality(RecentFailures) < Len(failure_history)

\* C9: with the restart counter at MAX_RESTARTS no child runs and none can be
\* started, MAX_RESTARTS children have been started in all, the only step left
\* to main is to give up, and it returns 1.
C9_BudgetExhausted ==
    restart_count >= MAX_RESTARTS =>
        /\ restart_count = MAX_RESTARTS
        /\ sup_pc \in {"loop", "exited"}
        /\ child = NoChild
        /\ Len(attempts) = MAX_RESTARTS
        /\ ~ENABLED Spawn
        /\ sup_pc = "loop" => ENABLED GiveUp /\ exit_code = NoExit
        /\ sup_pc = "exited" => exit_code = 1

\* main gave up after MAX_RESTARTS failed runs, the threshold never tripped
C9_Witness ==
    /\ sup_pc = "exited"
    /\ restart_count = MAX_RESTARTS
    /\ exit_code = 1
    /\ ~tripped
    /\ \A n \in 1..Len(attempts) : attempts[n].class = "Failed"

\* C10: main returns 0 exactly when its last run was classified Succeeded, and
\* 1 exactly when the threshold tripped or the restart counter reached
\* MAX_RESTARTS; from a run classified Succeeded main goes straight to its
\* return, with no failure recorded, no time slept and no child started.
LastClass == IF attempts = <<>> THEN "None" ELSE attempts[Len(attempts)].class

C10_Codes ==
    /\ exit_code \in {NoExit, 0, 1}
    /\ sup_pc = "exited" <=> exit_code # NoExit
    /\ exit_code = 0 <=> (sup_pc = "exited" /\ LastClass = "Succeeded")
    /\ exit_code = 1 <=> (sup_pc = "exited" /\ (tripped \/ restart_count >= MAX_RESTARTS))
    /\ sup_pc = "succeeded" <=> (LastClass = "Succeeded" /\ exit_code = NoExit)

C10_Step ==
    sup_pc = "succeeded" =>
        /\ sup_pc' \in {"succeeded", "exited"}
        /\ sup_pc' = "exited" => exit_code' = 0
        /\ now' = now
        /\ failure_timestamps' = failure_timestamps
        /\ restart_count' = restart_count
        /\ child' = NoChild
        /\ attempts' = attempts

C10_ExitCode == []C10_Codes /\ [][C10_Step]_vars

\* main returned 0 after a failed run and a run that succeeded
C10_Witness ==
    /\ exit_code = 0
    /\ Len(attempts) > 1
    /\ failure_history # <<>>

\* C11: at most one child started by the supervisor is alive at any moment, and
\* whenever run_scraper has returned (main stands outside it) no child that it
\* started is still alive.
LiveChildren == (IF child.alive THEN 1 ELSE 0) + Len(orphans)

C11_OneChildAlive ==
    /\ LiveChildren <= 1
    /\ sup_pc \notin {"reading"} => LiveChildren = 0

\* C12: a transport error met by a request of this run (an exception raised by
\* requests.get, or a too-many-requests response) has terminated the run, with
\* nothing appended to a checkpoint file since; and no artifact file holds the
\* body of a too-many-requests response.
C12_TransportErrorAborts ==
    /\ \A e \in errors :
          e.run = run =>
              /\ pc = "aborted"
              /\ Len(done_formulae_file) + Len(done_IDs_file) = e.at
    /\ \A r \in RecordIDs :
          /\ mol_files[r] # NoFile => mol_files[r][1] # TooManyRequests
          /\ jdx_files[r] # NoFile => jdx_files[r][1] # TooManyRequests

\* C13: a fetch that ends as NotFound has sent one request, has written no
\* file, has met no error and has not ended the run; while the item is being
\* processed no file exists for an artifact that was not found, and no file
\* ever holds the sentinel body; and at the end
\* of the item's fetch sequence the next step of the run is the append of the
\* item's key to its checkpoint file.
C13_Step ==
    /\ \A o \in outcomes' \ outcomes :
          o[3] = "NotFound" =>
              /\ mol_files' = mol_files
              /\ jdx_files' = jdx_files
              /\ errors' = errors
              /\ nreq' = nreq + 1
              /\ pc' # "aborted"
    /\ (pc = "id_mark" /\ pc' # pc) =>
          /\ done_IDs_file' = done_IDs_file \o cur.key \o <<NL>>
          /\ [run |-> run, cat |-> "id", key |-> cur.key] \in marked'
    /\ (pc = "f_mol" /\ j > Len(ids) /\ pc' # pc) =>
          /\ done_formulae_file' = done_formulae_file \o cur.key \o <<NL>>
          /\ [run |-> run, cat |-> "formula", key |-> cur.key] \in marked'

C13_State ==
    /\ \A o \in outcomes :
          o[3] = "NotFound" =>
              IF o[2] = "mol" THEN mol_files[o[1]] = NoFile ELSE jdx_files[o[1]] = NoFile
    /\ \A r \in RecordIDs :
          /\ mol_files[r] # NoFile => mol_files[r][1] # Sentinel
          /\ jdx_files[r] # NoFile => jdx_files[r][1] # Sentinel
    /\ pc = "id_mark" => ENABLED MarkID
    /\ (pc = "f_mol" /\ j > Len(ids)) => ENABLED MarkFormula

C13_NotFoundIsDone == [][C13_Step]_vars /\ []C13_State

\* In the first run a formula and a record ID were marked done, both artifacts
\* of the record ID were answered with the sentinel, and no file exists for it
C13_Witness ==
    /\ run = 1
    /\ errors = {}
    /\ \E m \in marked : m.cat = "formula"
    /\ \E m \in marked :
          /\ m.cat = "id"
          /\ mol_files[m.key] = NoFile
          /\ jdx_files[m.key] = NoFile

\* C14: when main leaves a failed run it has recorded the failure; if the
\* threshold tripped it returns 1 at once, with no time slept, the restart
\* counter unchanged and no child started, and none can be started afterwards;
\* otherwise the restart counter grows by exactly one, and every child started
\* after a failure is started no earlier than RESTART_DELAY seconds after the
\* last failure was recorded.
C14_Step ==
    (sup_pc = "failed" /\ sup_pc' # "failed") =>
        /\ failure_history' = Append(failure_history, now)
        /\ child' = NoChild
        /\ IF tripped'
           THEN /\ sup_pc' = "exited"
                /\ exit_code' = 1
                /\ now' = now
                /\ restart_count' = restart_count
           ELSE /\ sup_pc' = "loop"
                /\ exit_code' = NoExit
                /\ restart_count' = restart_count + 1

C14_State ==
    /\ (child # NoChild /\ failure_history # <<>>) =>
          child.born >= failure_history[Len(failure_history)] + RESTART_DELAY
    /\ sup_pc = "exited" => (child = NoChild /\ ~ENABLED Spawn)

C14_RestartOrAbort == [][C14_Step]_vars /\ []C14_State

\* A child was started exactly RESTART_DELAY after the first failure was recorded
C14_Witness ==
    /\ child.alive
    /\ restart_count = 1
    /\ Len(failure_history) = 1
    /\ child.born = failure_history[1] + RESTART_DELAY

\* C15: while run_scraper reads, what it has read followed by what waits in the
\* pipe is what the child has printed, in that order, and the log ends with
\* what was read; a line in the pipe can be read whether the child has exited
\* or not; and when run_scraper leaves its read loop and returns its verdict
\* the child has exited, has printed all its lines, and all of them are in the
\* log.
RECURSIVE Flatten(_)
Flatten(lines) == IF lines = <<>> THEN <<>> ELSE Head(lines) \o Flatten(Tail(lines))

C15_State ==
    sup_pc = "reading" =>
        /\ transcript \o Flatten(child.pipe) = Flatten(child.sent)
        /\ Len(log) >= Len(transcript)
        /\ SubSeq(log, Len(log) - Len(transcript) + 1, Len(log)) = transcript
        /\ child.pipe # <<>> => ENABLED ReadLine

C15_Step ==
    (sup_pc = "reading" /\ sup_pc' # "reading") =>
        /\ ~child.alive
        /\ child.todo = <<>>
        /\ child.pipe = <<>>
        /\ transcript = Flatten(child.sent)
        /\ SubSeq(log, Len(log) - Len(transcript) + 1, Len(log)) = transcript

C15_OutputStreamed == []C15_State /\ [][C15_Step]_vars

\* C16: every step that changes a checkpoint file appends to it one record, the
\* key of the item being processed followed by a newline, and leaves what the
\* file held in place; the keys read back from a file never decrease; and at
\* any time the keys read back are exactly the keys appended so far, over all
\* runs.
C16_Step ==
    /\ done_formulae_file' # done_formulae_file =>
          /\ done_formulae_file' = done_formulae_file \o formulae[i] \o <<NL>>
          /\ Len(ReadLines(done_formulae_file')) = Len(ReadLines(done_formulae_file)) + 1
          /\ done_IDs_file' = done_IDs_file
    /\ done_IDs_file' # done_IDs_file =>
          /\ done_IDs_file' = done_IDs_file \o IDs[i] \o <<NL>>
          /\ Len(ReadLines(done_IDs_file')) = Len(ReadLines(done_IDs_file)) + 1
          /\ done_formulae_file' = done_formulae_file
    /\ LoadDone(done_formulae_file) \subseteq LoadDone(done_formulae_file')
    /\ LoadDone(done_IDs_file) \subseteq LoadDone(done_IDs_file')

C16_Keys ==
    /\ LoadDone(done_formulae_file) = {m.key : m \in {x \in marked : x.cat = "formula"}}
    /\ LoadDone(done_IDs_file) = {m.key : m \in {x \in marked : x.cat = "id"}}

C16_AppendOnly == [][C16_Step]_vars /\ []C16_Keys

\* A run was ended by an error, and a checkpoint file holds a record of the
\* first run followed by a record appended by the second
C16_Witness ==
    /\ run = 2
    /\ \E e \in errors : e.run = 1 /\ e.kind = "raised"
    /\ \E m1, m2 \in marked :
          /\ m1.run = 1 /\ m2.run = 2
          /\ m1.cat = "formula" /\ m2.cat = "formula"
          /\ done_formulae_file = m1.key \o <<NL>> \o m2.key \o <<NL>>

\* C17: when every interrupted append has left a proper prefix of its key and
\* no newline, the set of done keys a run loads holds only keys that an earlier
\* run appended in full, and every key appended in full, before or after the
\* interruption, is read back from its checkpoint file.
C17_PartialLineIgnored ==
    (\A t \in torn : Len(t.written) < Len(t.key)) =>
        /\ \A key \in done_formulae :
              \E m \in marked : m.cat = "formula" /\ m.key = key /\ m.run < run
        /\ \A key \in done_IDs :
              \E m \in marked : m.cat = "id" /\ m.key = key /\ m.run < run
        /\ \A m \in marked :
              m.key \in LoadDone(IF m.cat = "formula" THEN done_formulae_file
                                 ELSE done_IDs_file)

\* C18: a run works on the formulas of the manifest, in the order of its lines,
\* and then on its record IDs, in the order of its lines. While it is at
\* formula number i it has sent requests for none but the first i formulas and
\* for no record ID, and the formulas before i are done; once it is at the
\* record IDs every formula is done, it never returns to a formula, and it has
\* sent requests for none but the first i record IDs. The index moves by one
\* item at a time, each request is for the item at the index, and it is sent
\* no earlier than the return of the request before it.
InFormulaPhase ==
    pc \in {"formulae", "f_mol", "f_jdx"} \/ (pc = "aborted" /\ cur.cat = "formula")

InIDPhase ==
    pc \in {"ids", "id_jdx", "id_mark", "done"} \/ (pc = "aborted" /\ cur.cat = "id")

DealtWith(cat, key, done) ==
    key \in done \/ [run |-> run, cat |-> cat, key |-> key] \in marked

RequestedOnlyUpTo(cat, items, n) ==
    \A q \in reqlog :
        (q.run = run /\ q.cat = cat) => \E m \in 1..n : m <= Len(items) /\ items[m] = q.key

C18_State ==
    /\ run > 0 => (formulae = ParseFormulae(species) /\ IDs = ParseIDs(species))
    /\ InFormulaPhase =>
          /\ \A n \in 1..(i - 1) : DealtWith("formula", formulae[n], done_formulae)
          /\ RequestedOnlyUpTo("formula", formulae, i)
          /\ ~\E q \in reqlog : q.run = run /\ q.cat = "id"
          /\ ~\E m \in marked : m.run = run /\ m.cat = "id"
    /\ InIDPhase =>
          /\ \A n \in 1..Len(formulae) : DealtWith("formula", formulae[n], done_formulae)
          /\ \A n \in 1..(i - 1) : DealtWith("id", IDs[n], done_IDs)
          /\ RequestedOnlyUpTo("id", IDs, i)

C18_Step ==
    /\ run' = run =>
          /\ InIDPhase => InIDPhase'
          /\ (InFormulaPhase /\ InFormulaPhase') => i' \in {i, i + 1}
          /\ (InIDPhase /\ InIDPhase') => i' \in {i, i + 1}
    /\ nreq' # nreq =>
          /\ nreq' = nreq + 1
          /\ i' = i
          /\ reqlog' \ reqlog \subseteq {[run |-> run, cat |-> cur'.cat, key |-> cur'.key]}
          /\ cur' = IF InFormulaPhase' THEN [cat |-> "formula", key |-> formulae[i]]
                    ELSE [cat |-> "id", key |-> IDs[i]]
          /\ issued'[Len(issued')] >= now
          /\ now' >= issued'[Len(issued')]

C18_Sequential == []C18_State /\ [][C18_Step]_vars

\* A run went through a manifest whose record ID stands before its formula,
\* sending requests for both
C18_Witness ==
    /\ species = <<Entry7, EntryC>>
    /\ pc = "done"
    /\ \E q \in reqlog : q.run = run /\ q.cat = "formula"
    /\ \E q \in reqlog : q.run = run /\ q.cat = "id"

\* C19: with every child exiting, main returns in the end; what it returns is 0
\* or 1; the children started so far never number more than the restart
\* budget, the first one included; and with a budget of 0 main returns 1
\* without having started any child.
Spawned == Len(attempts) + (IF sup_pc = "reading" THEN 1 ELSE 0)

C19_Bounded ==
    /\ exit_code \in {NoExit, 0, 1}
    /\ sup_pc = "exited" => exit_code \in {0, 1}
    /\ Spawned <= max_restarts
    /\ restart_count <= max_restarts
    /\ max_restarts = 0 => (child = NoChild /\ attempts = <<>> /\ exit_code # 0)

C19_Terminates == <>(sup_pc = "exited") /\ []C19_Bounded

\* With a budget of 0 main has returned 1 and no child was started
C19_Witness ==
    /\ max_restarts = 0
    /\ sup_pc = "exited"
    /\ exit_code = 1
    /\ attempts = <<>>
    /\ transcript = <<>>

\* C20: of the requests sent by all the children of one supervisor, no more
\* than K lie in any window of T seconds that ends at the sending of one of
\* them (its start excluded).
C20_QuotaAcrossRestarts ==
    \A n \in 1..Len(issued) :
        Cardinality({m \in 1..Len(issued) :
                        issued[n] - T < issued[m] /\ issued[m] <= issued[n]}) <= K

=============================================================================
